---- MODULE Spec2Model ----
(***************************************************************************)
(* Model of the plotting scripts of the repository:                        *)
(*   - plot_bode_plotly.py : sniff_delimiter, read_labels_and_data,        *)
(*                           plot_overlay, main                            *)
(*   - 3_Phase_waveforms_3rd.py / 3_Phase_waveforms.py : the three-phase   *)
(*                           reference synthesis with third-harmonic       *)
(*                           injection and peak normalization              *)
(* Text is a sequence of one-character strings.  The alphabet of the       *)
(* modelled files has no double quote, no carriage return and no exotic    *)
(* line separator, so csv.reader and str.splitlines see the same lines and *)
(* a reader row is the line cut at every delimiter.                        *)
(***************************************************************************)
EXTENDS Integers, Sequences, FiniteSets, TLC

VARIABLES
    \* ---- read_labels_and_data (one call) ----
    file,            \* the lines of the file at `path`
    ipc,             \* position inside read_labels_and_data
    delimiter,       \* result of sniff_delimiter(sample)
    sniff_failed,    \* TRUE when csv.Sniffer().sniff raised
    labels,          \* the labels list
    columns,         \* the columns list of lists
    skipped_label,   \* the skipped_label flag
    row_no,          \* how many rows the csv.reader loop has consumed
    ierr,            \* which ValueError was raised, "none" otherwise
    \* ---- main / plot_overlay ----
    csv_files,       \* the candidate files, in input order
    opc,             \* position inside main / plot_overlay
    fp,              \* how many candidates the for loop has consumed
    traces,          \* fig.data: the traces added so far
    x_title, y_title,\* the axis titles picked so far (None at first)
    added,           \* the added counter
    printed,         \* the lines printed so far
    xaxis, yaxis,    \* the axis titles set on the figure
    artifact,        \* what write_html wrote, NoArtifact when nothing was written
    oerr,            \* the exception plot_overlay raised, "none" otherwise
    via_main,        \* TRUE when main made the call, FALSE for a direct call
    ingested,        \* what each read_labels_and_data call of the loop gave
    \* ---- 3_Phase_waveforms_3rd.py (one run of the script) ----
    wpc,                   \* position in the script
    werr,                  \* the exception that ended the run, "none" otherwise
    freq_hz, cycles, samples_per_cycle,   \* integer-valued parameters
    phase_leg_peak_v, third_harmonic_ratio,  \* floating-point parameters
    N, t,                  \* the time base
    fundamental_waves, third_harmonic, combined_waveforms,
    max_modulation, scaling,
    phase_waveforms,       \* the scaled phase references
    line_to_line           \* Vab, Vbc, Vca

ingestVars == <<file, ipc, delimiter, sniff_failed, labels, columns,
                skipped_label, row_no, ierr>>
overlayVars == <<csv_files, opc, fp, traces, x_title, y_title, added,
                 printed, xaxis, yaxis, artifact, oerr, via_main, ingested>>
synthVars == <<wpc, werr, freq_hz, cycles, samples_per_cycle, phase_leg_peak_v,
               third_harmonic_ratio, N, t, fundamental_waves, third_harmonic,
               combined_waveforms, max_modulation, scaling, phase_waveforms,
               line_to_line>>
vars == <<ingestVars, overlayVars, synthVars>>

(***************************************************************************)
(* Bounds                                                                  *)
(***************************************************************************)
MaxLines == 3      \* a modelled file has at most this many lines
MaxFiles == 3      \* plot_overlay gets at most this many candidates
MaxCycles == 2     \* the synthesizer shows at most this many cycles
Precision == 8     \* significand bits of the modelled floating-point format

\* Python's None where a text is expected, where a delimiter is expected and
\* where the written file is expected
None == <<"None">>
NoDelimiter == ""
NoArtifact == [written |-> FALSE, traces |-> <<>>, xaxis |-> None, yaxis |-> None]

(***************************************************************************)
(* Text helpers: str.strip, str.split, str.replace, "in"                   *)
(***************************************************************************)
Whitespace == {" ", "\t"}
QuoteChars == {"'", "\""}
Digits     == {"1", "2", "5"}

RECURSIVE LStripSet(_, _)
LStripSet(s, cs) ==
    IF s # <<>> /\ Head(s) \in cs THEN LStripSet(Tail(s), cs) ELSE s

RECURSIVE RStripSet(_, _)
RStripSet(s, cs) ==
    IF s # <<>> /\ s[Len(s)] \in cs
    THEN RStripSet(SubSeq(s, 1, Len(s) - 1), cs) ELSE s

\* str.strip()
Strip(s) == RStripSet(LStripSet(s, Whitespace), Whitespace)

\* str.strip('"\'')
StripQuotes(s) == RStripSet(LStripSet(s, QuoteChars), QuoteChars)

RECURSIVE SplitFrom(_, _, _)
SplitFrom(s, d, cur) ==
    IF s = <<>> THEN <<cur>>
    ELSE IF Head(s) = d THEN <<cur>> \o SplitFrom(Tail(s), d, <<>>)
    ELSE SplitFrom(Tail(s), d, Append(cur, Head(s)))

\* str.split(d): the text cut at every occurrence of d
Split(s, d) == SplitFrom(s, d, <<>>)

\* c.replace(",", ".")
ReplaceComma(c) == [i \in 1..Len(c) |-> IF c[i] = "," THEN "." ELSE c[i]]

\* d in sample
Occurs(d, s) == \E i \in 1..Len(s) : s[i] = d

RECURSIVE JoinLines(_)
\* "\n".join(lines)
JoinLines(ls) ==
    IF ls = <<>> THEN <<>>
    ELSE IF Len(ls) = 1 THEN ls[1]
    ELSE ls[1] \o <<"\n">> \o JoinLines(Tail(ls))

Take(s, n) == SubSeq(s, 1, IF Len(s) < n THEN Len(s) ELSE n)

(***************************************************************************)
(* float(c) on the modelled alphabet: a decimal literal of digits with at  *)
(* most one point and at least one digit; everything else is a ValueError. *)
(* The value is kept as the literal that float accepted.                   *)
(***************************************************************************)
NaN == <<"n", "a", "n">>

IsFloatText(c) ==
    /\ c # <<>>
    /\ \A i \in 1..Len(c) : c[i] \in Digits \cup {"."}
    /\ Cardinality({i \in 1..Len(c) : c[i] = "."}) <= 1
    /\ \E i \in 1..Len(c) : c[i] \in Digits

(***************************************************************************)
(* sniff_delimiter                                                         *)
(***************************************************************************)
Candidates == <<",", ";", "\t", " ">>
SniffError == "csv.Error"

\* csv.Sniffer().sniff(sample, delimiters=",;\t "): the library either raises
\* or returns one of the given delimiters that occurs in the sample; which of
\* the two is the library's choice.
LibrarySniff(sample) ==
    {Candidates[i] : i \in {j \in 1..Len(Candidates) : Occurs(Candidates[j], sample)}}
        \cup {SniffError}

\* a fallback that keeps looping and so ends on the last candidate present
FallbackDelimiterLast(sample) ==
    IF \E i \in 1..Len(Candidates) : Occurs(Candidates[i], sample)
    THEN Candidates[CHOOSE i \in 1..Len(Candidates) :
            /\ Occurs(Candidates[i], sample)
            /\ \A j \in (i + 1)..Len(Candidates) : ~Occurs(Candidates[j], sample)]
    ELSE ","

\* the except branch: the first candidate present in the sample, else ","
FallbackDelimiter(sample) ==
    IF \E i \in 1..Len(Candidates) : Occurs(Candidates[i], sample)
    THEN Candidates[CHOOSE i \in 1..Len(Candidates) :
            /\ Occurs(Candidates[i], sample)
            /\ \A j \in 1..(i - 1) : ~Occurs(Candidates[j], sample)]
    ELSE ","

sniff_delimiter(sample, outcome) ==
    IF outcome = SniffError THEN FallbackDelimiter(sample) ELSE outcome

(***************************************************************************)
(* read_labels_and_data, piece by piece                                    *)
(***************************************************************************)
IsSubstantive(ln) == Strip(ln) # <<>>

non_empty_lines(f) == SelectSeq(f, IsSubstantive)

Sample(f) == JoinLines(Take(non_empty_lines(f), 5))

NonEmptyText(txt) == txt # <<>>

\* labels = [tok.strip().strip('"\'') for tok in labels_line.split(delimiter)]
\* labels = [lbl for lbl in labels if lbl][:2]
ParseLabels(labels_line, d) ==
    LET toks == Split(labels_line, d)
        cleaned == [i \in 1..Len(toks) |-> StripQuotes(Strip(toks[i]))]
    IN  Take(SelectSeq(cleaned, NonEmptyText), 2)

\* one row of csv.reader(f, delimiter=d)
ReaderRow(ln, d) == IF ln = <<>> THEN <<>> ELSE Split(ln, d)

RECURSIVE CoerceCellsKeep(_, _)
\* a coercion loop that drops the unparseable cell only and keeps the row
CoerceCellsKeep(cells, numeric) ==
    IF cells = <<>> THEN numeric
    ELSE LET c == Strip(Head(cells)) IN
         IF c = <<>> THEN CoerceCellsKeep(Tail(cells), Append(numeric, NaN))
         ELSE IF IsFloatText(c) THEN CoerceCellsKeep(Tail(cells), Append(numeric, c))
         ELSE IF IsFloatText(ReplaceComma(c))
              THEN CoerceCellsKeep(Tail(cells), Append(numeric, ReplaceComma(c)))
         ELSE numeric

RECURSIVE CoerceCells(_, _)
\* the for cell in row[:2] loop; <<>> when the row is given up
CoerceCells(cells, numeric) ==
    IF cells = <<>> THEN numeric
    ELSE LET c == Strip(Head(cells)) IN
         IF c = <<>> THEN CoerceCells(Tail(cells), Append(numeric, NaN))
         ELSE IF IsFloatText(c) THEN CoerceCells(Tail(cells), Append(numeric, c))
         ELSE IF IsFloatText(ReplaceComma(c))
              THEN CoerceCells(Tail(cells), Append(numeric, ReplaceComma(c)))
         ELSE <<>>

CoerceRow(row) == CoerceCells(Take(row, 2), <<>>)

\* while len(columns) < len(numeric): columns.append([])
\* for i, v in enumerate(numeric): columns[i].append(v)
AppendNumeric(cols, numeric) ==
    LET n == IF Len(cols) < Len(numeric) THEN Len(numeric) ELSE Len(cols)
    IN  [i \in 1..n |->
            LET old == IF i <= Len(cols) THEN cols[i] ELSE <<>>
            IN  IF i <= Len(numeric) THEN Append(old, numeric[i]) ELSE old]

IsEmptyRow(row) == row = <<>> \/ \A i \in 1..Len(row) : Strip(row[i]) = <<>>

IsCommentRow(row) ==
    LET first == IF row = <<>> THEN <<>> ELSE Strip(row[1])
    IN  first # <<>> /\ Head(first) = "#"

\* the body of the for row in reader loop, on (columns, skipped_label)
ScanRow(st, row) ==
    IF IsEmptyRow(row) THEN st
    ELSE IF ~st.skipped_label THEN [st EXCEPT !.skipped_label = TRUE]
    ELSE IF IsCommentRow(row) THEN st
    ELSE IF CoerceRow(row) = <<>> THEN st
    ELSE [st EXCEPT !.columns = AppendNumeric(st.columns, CoerceRow(row))]

RECURSIVE ScanRows(_, _, _)
ScanRows(st, lines, d) ==
    IF lines = <<>> THEN st
    ELSE ScanRows(ScanRow(st, ReaderRow(Head(lines), d)), Tail(lines), d)

\* the two checks in the other order
CheckResultColumnsFirst(lbls, cols) ==
    IF Len(cols) < 2
    THEN [err |-> "InsufficientColumns", labels |-> lbls, columns |-> cols]
    ELSE IF Len(lbls) < 2
         THEN [err |-> "MissingLabels", labels |-> lbls, columns |-> cols]
    ELSE [err |-> "none", labels |-> lbls, columns |-> Take(cols, 2)]

\* the two checks after the loop and the return
CheckResult(lbls, cols) ==
    IF Len(lbls) < 2 THEN [err |-> "MissingLabels", labels |-> lbls, columns |-> cols]
    ELSE IF Len(cols) < 2
         THEN [err |-> "InsufficientColumns", labels |-> lbls, columns |-> cols]
    ELSE [err |-> "none", labels |-> lbls, columns |-> Take(cols, 2)]

\* the whole call, for the library's sniff outcome `outcome`
read_labels_and_data(f, outcome) ==
    IF non_empty_lines(f) = <<>>
    THEN [err |-> "EmptyInput", labels |-> <<>>, columns |-> <<>>]
    ELSE LET d == sniff_delimiter(Sample(f), outcome)
             st == ScanRows([columns |-> <<>>, skipped_label |-> FALSE], f, d)
         IN  CheckResult(ParseLabels(non_empty_lines(f)[1], d), st.columns)

(***************************************************************************)
(* The modelled files: every sequence of at most MaxLines of these lines   *)
(***************************************************************************)
LineTexts ==
    { <<>>,                            \* a blank line
      <<"x", ",", "y">>,               \* two labels, comma
      <<"x", ";", "y">>,               \* two labels, semicolon
      <<"x">>,                         \* one label
      <<"1", ",", "2">>,               \* two numbers, comma
      <<"2", ";", "1", ",", "5">>,     \* semicolon row with a comma decimal
      <<"5">>,                         \* a row of one cell
      <<"2", ",", "x">>,               \* second cell is not a number
      <<"#", ",", "1">>,               \* a comment row
      <<"1", "\t", "2">>,              \* two numbers, tab
      <<"x", " ", "y">>,               \* two labels, space
      <<",">> }                        \* nothing but a delimiter

Files == UNION {[1..n -> LineTexts] : n \in 0..MaxLines}

IdleOverlay ==
    /\ csv_files = <<>> /\ opc = "idle" /\ fp = 0 /\ traces = <<>>
    /\ x_title = None /\ y_title = None /\ added = 0 /\ printed = <<>>
    /\ xaxis = None /\ yaxis = None /\ artifact = NoArtifact
    /\ oerr = "none" /\ via_main = FALSE /\ ingested = <<>>

IdleSynth ==
    /\ wpc = "idle" /\ werr = "none"
    /\ freq_hz = 0 /\ cycles = 0 /\ samples_per_cycle = 0
    /\ phase_leg_peak_v = [m |-> 0, e |-> 0]
    /\ third_harmonic_ratio = [m |-> 0, e |-> 0]
    /\ N = 0 /\ t = <<>> /\ fundamental_waves = <<>> /\ third_harmonic = <<>>
    /\ combined_waveforms = <<>>
    /\ max_modulation = [m |-> 0, e |-> 0] /\ scaling = [m |-> 0, e |-> 0]
    /\ phase_waveforms = <<>> /\ line_to_line = <<>>

IdleIngest ==
    /\ file = <<>> /\ ipc = "idle" /\ delimiter = NoDelimiter /\ sniff_failed = FALSE
    /\ labels = <<>> /\ columns = <<>> /\ skipped_label = FALSE
    /\ row_no = 0 /\ ierr = "none"

(***************************************************************************)
(* read_labels_and_data as the steps of one call                           *)
(***************************************************************************)
InitIngest ==
    /\ file \in Files
    /\ ipc = "open"
    /\ delimiter = NoDelimiter /\ sniff_failed = FALSE
    /\ labels = <<>> /\ columns = <<>> /\ skipped_label = FALSE
    /\ row_no = 0 /\ ierr = "none"
    /\ IdleOverlay
    /\ IdleSynth

\* lines 29-36: read the lines, raise on a file without a substantive line
ReadLines ==
    /\ ipc = "open"
    /\ IF non_empty_lines(file) = <<>>
       THEN ipc' = "raised" /\ ierr' = "EmptyInput"
       ELSE ipc' = "sniff" /\ ierr' = ierr
    /\ UNCHANGED <<file, delimiter, sniff_failed, labels, columns,
                   skipped_label, row_no, overlayVars, synthVars>>

\* lines 38-41 and 11-21: delimiter = sniff_delimiter(sample)
SniffDelimiter ==
    /\ ipc = "sniff"
    /\ \E outcome \in LibrarySniff(Sample(file)) :
          /\ delimiter' = sniff_delimiter(Sample(file), outcome)
          /\ sniff_failed' = (outcome = SniffError)
    /\ ipc' = "labels"
    /\ UNCHANGED <<file, labels, columns, skipped_label, row_no, ierr,
                   overlayVars, synthVars>>

\* lines 43-49: the labels, then the second open of the file
LabelsStep ==
    /\ ipc = "labels"
    /\ labels' = ParseLabels(non_empty_lines(file)[1], delimiter)
    /\ columns' = <<>>
    /\ skipped_label' = FALSE
    /\ ipc' = "scan"
    /\ UNCHANGED <<file, delimiter, sniff_failed, row_no, ierr, overlayVars,
                   synthVars>>

\* lines 52-90: one iteration of for row in reader
ScanRowStep ==
    /\ ipc = "scan"
    /\ row_no < Len(file)
    /\ LET st == ScanRow([columns |-> columns, skipped_label |-> skipped_label],
                         ReaderRow(file[row_no + 1], delimiter))
       IN  /\ columns' = st.columns
           /\ skipped_label' = st.skipped_label
    /\ row_no' = row_no + 1
    /\ UNCHANGED <<file, ipc, delimiter, sniff_failed, labels, ierr, overlayVars,
                   synthVars>>

\* lines 92-104: the reader is exhausted; the two checks and the return
FinishRead ==
    /\ ipc = "scan"
    /\ row_no = Len(file)
    /\ LET r == CheckResult(labels, columns)
       IN  /\ ierr' = r.err
           /\ columns' = r.columns
           /\ ipc' = IF r.err = "none" THEN "returned" ELSE "raised"
    /\ UNCHANGED <<file, delimiter, sniff_failed, labels, skipped_label,
                   row_no, overlayVars, synthVars>>

NextIngest ==
    \/ ReadLines
    \/ SniffDelimiter
    \/ LabelsStep
    \/ ScanRowStep
    \/ FinishRead

SpecIngest == InitIngest /\ [][NextIngest]_vars

(***************************************************************************)
(* main and plot_overlay                                                   *)
(***************************************************************************)
\* the candidate files of the overlay runs
OverlayFiles ==
    { << <<"x", ",", "y">>, <<"1", ",", "2">> >>,            \* well formed
      << <<"f", ";", "m">>, <<"2", ";", "1", ",", "5">> >>,  \* other labels
      << <<"y", ",", "x">>, <<"1", ",", "2">>, <<"5">> >>,   \* ragged rows
      << <<>> >>,                                            \* no substantive line
      << <<"x">>, <<"5">> >>,                                \* one label
      << <<"x", ",", "y">>, <<"2", ",", "x">> >> }           \* no usable row

\* what the library may do for file f; a file without a substantive line
\* raises before the sniff
SniffOutcomes(f) ==
    IF non_empty_lines(f) = <<>> THEN {SniffError} ELSE LibrarySniff(Sample(f))

Truthy(title) == title # None /\ title # <<>>

\* lines 145-153 with the titles overwritten by every file
TryIngestLastLabels(st, r, name) ==
    IF r.err = "none" /\ Len(r.columns) = 2
    THEN [st EXCEPT
            !.x_title = IF Len(r.labels) >= 2 THEN r.labels[1] ELSE @,
            !.y_title = IF Len(r.labels) >= 2 THEN r.labels[2] ELSE @,
            !.traces = Append(@, [name |-> name, x |-> r.columns[1],
                                  y |-> r.columns[2]]),
            !.added = @ + 1]
    ELSE [st EXCEPT !.printed = Append(@, <<"Skipping", name, r.err>>)]

\* lines 145-153 with the new trace put in front of the others
TryIngestPrepend(st, r, name) ==
    IF r.err = "none" /\ Len(r.columns) = 2
    THEN [st EXCEPT
            !.x_title = IF st.x_title = None /\ Len(r.labels) >= 2
                        THEN r.labels[1] ELSE @,
            !.y_title = IF st.x_title = None /\ Len(r.labels) >= 2
                        THEN r.labels[2] ELSE @,
            !.traces = <<[name |-> name, x |-> r.columns[1],
                          y |-> r.columns[2]]>> \o @,
            !.added = @ + 1]
    ELSE [st EXCEPT !.printed = Append(@, <<"Skipping", name, r.err>>)]

\* lines 145-153: the try block and its except, r being what
\* read_labels_and_data(fp) returned or raised
TryIngest(st, r, name) ==
    IF r.err = "none" /\ Len(r.columns) = 2
    THEN [st EXCEPT
            !.x_title = IF st.x_title = None /\ Len(r.labels) >= 2
                        THEN r.labels[1] ELSE @,
            !.y_title = IF st.x_title = None /\ Len(r.labels) >= 2
                        THEN r.labels[2] ELSE @,
            !.traces = Append(@, [name |-> name, x |-> r.columns[1],
                                  y |-> r.columns[2]]),
            !.added = @ + 1]
    ELSE [st EXCEPT !.printed =
            Append(@, <<"Skipping", name,
                        IF r.err = "none" THEN "ValueError" ELSE r.err>>)]

InitOverlay ==
    /\ csv_files \in UNION {[1..n -> OverlayFiles] : n \in 0..MaxFiles}
    /\ via_main \in BOOLEAN
    /\ opc = IF via_main THEN "main" ELSE "loop"
    /\ fp = 0 /\ traces = <<>> /\ x_title = None /\ y_title = None
    /\ added = 0 /\ printed = <<>> /\ xaxis = None /\ yaxis = None
    /\ artifact = NoArtifact /\ oerr = "none" /\ ingested = <<>>
    /\ IdleIngest
    /\ IdleSynth

\* lines 177-186: main up to the call of plot_overlay
Main ==
    /\ opc = "main"
    /\ IF csv_files = <<>>
       THEN /\ printed' = Append(printed, <<"No CSV files found">>)
            /\ opc' = "exit"
       ELSE /\ printed' = Append(printed, <<"Found", Len(csv_files)>>)
            /\ opc' = "loop"
    /\ UNCHANGED <<csv_files, fp, traces, x_title, y_title, added, xaxis, yaxis,
                   artifact, oerr, via_main, ingested, ingestVars, synthVars>>

\* lines 144-153: one iteration of for fp in csv_files
OverlayIter ==
    /\ opc = "loop"
    /\ fp < Len(csv_files)
    /\ \E outcome \in SniffOutcomes(csv_files[fp + 1]) :
          LET r == read_labels_and_data(csv_files[fp + 1], outcome)
              st == TryIngest([traces |-> traces, x_title |-> x_title,
                               y_title |-> y_title, added |-> added,
                               printed |-> printed], r, fp + 1)
          IN  /\ traces' = st.traces
              /\ x_title' = st.x_title
              /\ y_title' = st.y_title
              /\ added' = st.added
              /\ printed' = st.printed
              /\ ingested' = Append(ingested, r)
    /\ fp' = fp + 1
    /\ UNCHANGED <<csv_files, opc, xaxis, yaxis, artifact, oerr, via_main,
                   ingestVars, synthVars>>

\* lines 155-174 with the file written before the count is looked at
OverlayFinishWriteFirst ==
    /\ opc = "loop"
    /\ fp = Len(csv_files)
    /\ xaxis' = (IF Truthy(x_title) THEN x_title ELSE None)
    /\ yaxis' = (IF Truthy(y_title) THEN y_title ELSE None)
    /\ artifact' = [written |-> TRUE, traces |-> traces, xaxis |-> xaxis', yaxis |-> yaxis']
    /\ IF added = 0
       THEN /\ oerr' = "RuntimeError"
            /\ opc' = (IF via_main THEN "exit" ELSE "raised")
            /\ printed' = (IF via_main
                           THEN Append(printed, <<"Failed to create combined plot">>)
                           ELSE printed)
       ELSE /\ oerr' = oerr
            /\ opc' = "exit"
            /\ printed' = (IF via_main THEN Append(printed, <<"Combined">>)
                           ELSE printed)
    /\ UNCHANGED <<csv_files, fp, traces, x_title, y_title, added, via_main,
                   ingested, ingestVars, synthVars>>

\* lines 155-174, and 187-189 of main: the loop is over
OverlayFinish ==
    /\ opc = "loop"
    /\ fp = Len(csv_files)
    /\ IF added = 0
       THEN /\ oerr' = "RuntimeError"
            /\ opc' = (IF via_main THEN "exit" ELSE "raised")
            /\ printed' = (IF via_main
                           THEN Append(printed, <<"Failed to create combined plot">>)
                           ELSE printed)
            /\ UNCHANGED <<xaxis, yaxis, artifact>>
       ELSE /\ xaxis' = (IF Truthy(x_title) THEN x_title ELSE None)
            /\ yaxis' = (IF Truthy(y_title) THEN y_title ELSE None)
            /\ artifact' = [written |-> TRUE, traces |-> traces, xaxis |-> xaxis', yaxis |-> yaxis']
            /\ oerr' = oerr
            /\ opc' = "exit"
            /\ printed' = (IF via_main THEN Append(printed, <<"Combined">>)
                           ELSE printed)
    /\ UNCHANGED <<csv_files, fp, traces, x_title, y_title, added, via_main,
                   ingested, ingestVars, synthVars>>

NextOverlay ==
    \/ Main
    \/ OverlayIter
    \/ OverlayFinish

SpecOverlay == InitOverlay /\ [][NextOverlay]_vars

(***************************************************************************)
(* Floating point.  A float is [m, e] standing for m * 2^e, with m = 0 or  *)
(* 2^(Precision-1) <= |m| < 2^Precision; every operation rounds its exact  *)
(* result to the nearest float, ties to even, as IEEE 754 does.  The       *)
(* exponent is unbounded: no overflow, underflow, infinity or NaN.         *)
(***************************************************************************)
RECURSIVE Pow2(_)
Pow2(k) == IF k <= 0 THEN 1 ELSE 2 * Pow2(k - 1)

RECURSIVE BitLen(_)
BitLen(n) == IF n = 0 THEN 0 ELSE 1 + BitLen(n \div 2)

Abs(n) == IF n < 0 THEN -n ELSE n
Sign(n) == IF n < 0 THEN -1 ELSE 1

FZero == [m |-> 0, e |-> 0]

\* the float nearest to n * 2^e
FRound(n, e) ==
    IF n = 0 THEN FZero
    ELSE LET a == Abs(n)
             len == BitLen(a)
         IN  IF len <= Precision
             THEN [m |-> Sign(n) * a * Pow2(Precision - len),
                   e |-> e - (Precision - len)]
             ELSE LET sh == len - Precision
                      q == a \div Pow2(sh)
                      r == a % Pow2(sh)
                      half == Pow2(sh - 1)
                      q2 == IF r > half \/ (r = half /\ q % 2 = 1)
                            THEN q + 1 ELSE q
                  IN  IF q2 = Pow2(Precision)
                      THEN [m |-> Sign(n) * Pow2(Precision - 1), e |-> e + sh + 1]
                      ELSE [m |-> Sign(n) * q2, e |-> e + sh]

FromInt(n) == FRound(n, 0)

FNeg(a) == [m |-> -a.m, e |-> a.e]
FAbs(a) == [m |-> Abs(a.m), e |-> a.e]

FMul(a, b) == FRound(a.m * b.m, a.e + b.e)

\* a / b for b # 0; the last bit of the quotient is a sticky bit
FDiv(a, b) ==
    IF a.m = 0 THEN FZero
    ELSE LET num == Abs(a.m) * Pow2(Precision + 2)
             q == num \div Abs(b.m)
             sticky == IF num % Abs(b.m) = 0 THEN 0 ELSE 1
         IN  FRound(Sign(a.m) * Sign(b.m) * (2 * q + sticky),
                    a.e - b.e - Precision - 3)

FAdd(a, b) ==
    IF a.m = 0 THEN b
    ELSE IF b.m = 0 THEN a
    ELSE IF a.e - b.e >= Precision + 2 THEN a
    ELSE IF b.e - a.e >= Precision + 2 THEN b
    ELSE LET e == IF a.e < b.e THEN a.e ELSE b.e
         IN  FRound(a.m * Pow2(a.e - e) + b.m * Pow2(b.e - e), e)

FSub(a, b) == FAdd(a, FNeg(b))

\* a < b
FLess(a, b) ==
    LET PosLess(x, y) ==        \* 0 <= x, 0 <= y
            IF y.m = 0 THEN FALSE
            ELSE IF x.m = 0 THEN TRUE
            ELSE x.e < y.e \/ (x.e = y.e /\ x.m < y.m)
    IN  IF a.m < 0 /\ b.m >= 0 THEN TRUE
        ELSE IF a.m >= 0 /\ b.m < 0 THEN FALSE
        ELSE IF a.m >= 0 THEN PosLess(a, b)
        ELSE PosLess(FNeg(b), FNeg(a))

FLeq(a, b) == ~FLess(b, a)

FMax(a, b) == IF FLess(a, b) THEN b ELSE a

(***************************************************************************)
(* np.sin: the sine of the ideal angle, rounded to the format.  Sample i   *)
(* of a run with samples_per_cycle in {3, 4, 6, 12} sits at a multiple of  *)
(* a twelfth of a turn, where the sine is 0, 1/2, sqrt(3)/2 or 1.          *)
(***************************************************************************)
FHalf == [m |-> Pow2(Precision - 1), e |-> -Precision]
FOne  == FromInt(1)

\* sqrt(3)/2 rounded to the format
FSqrt3Half ==
    [m |-> CHOOSE m \in Pow2(Precision - 1)..Pow2(Precision) :
              /\ (2 * m - 1) * (2 * m - 1) < 3 * Pow2(2 * Precision)
              /\ 3 * Pow2(2 * Precision) < (2 * m + 1) * (2 * m + 1),
     e |-> -Precision]

\* sin(k * pi / 6)
SinTwelfth(k) ==
    LET j == k % 12
        quarter == <<FZero, FHalf, FSqrt3Half, FOne, FSqrt3Half, FHalf>>
    IN  IF j < 6 THEN quarter[j + 1] ELSE FNeg(quarter[j - 5])

(***************************************************************************)
(* 3_Phase_waveforms_3rd.py                                                *)
(***************************************************************************)
Phases == <<"Phase A", "Phase B", "Phase C">>

\* phase_angles, in twelfths of a turn: 0, -120 and +120 degrees
PhaseTwelfths == <<0, -4, 4>>

line_to_line_pairs == << <<1, 2, "Vab">>, <<2, 3, "Vbc">>, <<3, 1, "Vca">> >>

\* omega * t[i] in twelfths of a turn, i counted from 1
AngleTwelfths(i, spcy) == (i - 1) * (12 \div spcy)

\* np.sin(omega * t + phi)
FundamentalWave(p, n, spcy) ==
    [i \in 1..n |-> SinTwelfth(AngleTwelfths(i, spcy) + PhaseTwelfths[p])]

\* third_harmonic_ratio * np.sin(3.0 * omega * t)
ThirdHarmonic(ratio, n, spcy) ==
    [i \in 1..n |-> FMul(ratio, SinTwelfth(3 * AngleTwelfths(i, spcy)))]

\* the injection reaching the first phase only
CombineFirstPhaseOnly(waves, harmonic) ==
    [p \in 1..Len(waves) |->
        [i \in 1..Len(waves[p]) |->
            IF p = 1 THEN FAdd(waves[p][i], harmonic[i]) ELSE waves[p][i]]]

\* combined_waveforms = {name: wave + third_harmonic ...}
Combine(waves, harmonic) ==
    [p \in 1..Len(waves) |->
        [i \in 1..Len(waves[p]) |-> FAdd(waves[p][i], harmonic[i])]]

\* np.max(np.abs(wave)) of a non-empty wave
MaxAbsOf(wave) ==
    LET mags == {FAbs(wave[i]) : i \in 1..Len(wave)}
    IN  CHOOSE x \in mags : \A y \in mags : FLeq(y, x)

\* the maximum taken over the first phase only
MaxModulationFirstPhase(waves) == MaxAbsOf(waves[1])

\* max(np.max(np.abs(wave)) for wave in combined_waveforms.values())
MaxModulation(waves) ==
    FMax(MaxAbsOf(waves[1]), FMax(MaxAbsOf(waves[2]), MaxAbsOf(waves[3])))

\* scaling = phase_leg_peak_v / max_modulation if max_modulation else 1.0
Scaling(peak, maxmod) == IF maxmod.m # 0 THEN FDiv(peak, maxmod) ELSE FOne

\* injected = scaling * raw_wave, for every phase
Scale(sc, waves) ==
    [p \in 1..Len(waves) |->
        [i \in 1..Len(waves[p]) |-> FMul(sc, waves[p][i])]]

\* voltage = phase_waveforms[pos] - phase_waveforms[neg], for every pair
LineToLine(pw) ==
    [k \in 1..Len(line_to_line_pairs) |->
        [i \in 1..Len(pw[1]) |->
            FSub(pw[line_to_line_pairs[k][1]][i], pw[line_to_line_pairs[k][2]][i])]]

\* the parameter values the runs are started with
Frequencies == {-50, 0, 50}
PeakVolts == {1, 100, 230, 325}
SampleDensities == {3, 4, 6, 12}
HarmonicRatios == {FZero, FDiv(FromInt(1), FromInt(6)), FDiv(FromInt(1), FromInt(4))}

InitSynth ==
    /\ wpc = "time_base" /\ werr = "none"
    /\ freq_hz \in Frequencies
    /\ cycles \in -1..MaxCycles
    /\ samples_per_cycle \in SampleDensities
    /\ phase_leg_peak_v \in {FromInt(v) : v \in PeakVolts}
    /\ third_harmonic_ratio \in HarmonicRatios
    /\ N = 0 /\ t = <<>> /\ fundamental_waves = <<>> /\ third_harmonic = <<>>
    /\ combined_waveforms = <<>> /\ max_modulation = FZero /\ scaling = FZero
    /\ phase_waveforms = <<>> /\ line_to_line = <<>>
    /\ IdleIngest
    /\ IdleOverlay

\* lines 17-19: T = 1.0 / freq_hz; N = int(cycles * samples_per_cycle);
\* t = np.linspace(0, cycles * T, N, endpoint=False)
TimeBase ==
    /\ wpc = "time_base"
    /\ IF freq_hz = 0
       THEN /\ wpc' = "crashed" /\ werr' = "ZeroDivisionError"
            /\ UNCHANGED <<N, t>>
       ELSE /\ N' = cycles * samples_per_cycle
            /\ IF N' < 0
               THEN wpc' = "crashed" /\ werr' = "ValueError" /\ t' = t
               ELSE /\ wpc' = "waves" /\ werr' = werr
                    /\ t' = LET T == FDiv(FOne, FromInt(freq_hz))
                                step == IF N' = 0 THEN FZero
                                        ELSE FDiv(FMul(FromInt(cycles), T), FromInt(N'))
                            IN  [i \in 1..N' |-> FMul(FromInt(i - 1), step)]
    /\ UNCHANGED <<freq_hz, cycles, samples_per_cycle, phase_leg_peak_v,
                   third_harmonic_ratio, fundamental_waves, third_harmonic,
                   combined_waveforms, max_modulation, scaling, phase_waveforms,
                   line_to_line, ingestVars, overlayVars>>

\* lines 28-39: the fundamental waves, the third harmonic and their sums
Waves ==
    /\ wpc = "waves"
    /\ fundamental_waves' =
          [p \in 1..Len(Phases) |-> FundamentalWave(p, N, samples_per_cycle)]
    /\ third_harmonic' = ThirdHarmonic(third_harmonic_ratio, N, samples_per_cycle)
    /\ combined_waveforms' = Combine(fundamental_waves', third_harmonic')
    /\ wpc' = "normalize"
    /\ UNCHANGED <<werr, freq_hz, cycles, samples_per_cycle, phase_leg_peak_v,
                   third_harmonic_ratio, N, t, max_modulation, scaling,
                   phase_waveforms, line_to_line, ingestVars, overlayVars>>

\* lines 40-41: np.max of an empty array raises ValueError
Normalize ==
    /\ wpc = "normalize"
    /\ IF N = 0
       THEN /\ wpc' = "crashed" /\ werr' = "ValueError"
            /\ UNCHANGED <<max_modulation, scaling>>
       ELSE /\ max_modulation' = MaxModulation(combined_waveforms)
            /\ scaling' = Scaling(phase_leg_peak_v, max_modulation')
            /\ wpc' = "scale" /\ werr' = werr
    /\ UNCHANGED <<freq_hz, cycles, samples_per_cycle, phase_leg_peak_v,
                   third_harmonic_ratio, N, t, fundamental_waves, third_harmonic,
                   combined_waveforms, phase_waveforms, line_to_line,
                   ingestVars, overlayVars>>

\* lines 48-60: the scaled phase references
ScalePhases ==
    /\ wpc = "scale"
    /\ phase_waveforms' = Scale(scaling, combined_waveforms)
    /\ wpc' = "line_to_line"
    /\ UNCHANGED <<werr, freq_hz, cycles, samples_per_cycle, phase_leg_peak_v,
                   third_harmonic_ratio, N, t, fundamental_waves, third_harmonic,
                   combined_waveforms, max_modulation, scaling, line_to_line,
                   ingestVars, overlayVars>>

\* lines 62-81: the line-to-line voltages (include_line_to_line is True)
LineToLineStep ==
    /\ wpc = "line_to_line"
    /\ line_to_line' = LineToLine(phase_waveforms)
    /\ wpc' = "done"
    /\ UNCHANGED <<werr, freq_hz, cycles, samples_per_cycle, phase_leg_peak_v,
                   third_harmonic_ratio, N, t, fundamental_waves, third_harmonic,
                   combined_waveforms, max_modulation, scaling, phase_waveforms,
                   ingestVars, overlayVars>>

NextSynth ==
    \/ TimeBase
    \/ Waves
    \/ Normalize
    \/ ScalePhases
    \/ LineToLineStep

SpecSynth == InitSynth /\ [][NextSynth]_vars

(***************************************************************************)
(* Properties of read_labels_and_data and sniff_delimiter (SpecIngest)     *)
(***************************************************************************)
IngestDone == ipc \in {"returned", "raised"}

\* C4: whenever read_labels_and_data returns, the two returned columns have
\* the same length, also for files with data rows of a single cell.
C4_EqualLengthColumns ==
    ipc = "returned" => Len(columns[1]) = Len(columns[2])

\* the scan recovered exactly one column of numbers
OneColumnOfData == IngestDone /\ ierr # "EmptyInput" /\ Len(columns) = 1

\* C5 (as claimed): a file with only one column of data fails with
\* InsufficientColumns whatever its header line holds, and a file without a
\* substantive line fails with EmptyInput.
C5_OneColumnAlwaysInsufficient ==
    /\ OneColumnOfData => ierr = "InsufficientColumns"
    /\ (IngestDone /\ non_empty_lines(file) = <<>>) => ierr = "EmptyInput"

\* C5 (amended): a file with only one column of data fails with
\* InsufficientColumns when its header line yields two labels and with
\* MissingLabels when it yields fewer, the label check coming first; a file
\* without a substantive line fails with EmptyInput.
C5_OneColumnFailure ==
    /\ OneColumnOfData =>
          /\ ipc = "raised"
          /\ ierr = (IF Len(labels) >= 2 THEN "InsufficientColumns"
                                         ELSE "MissingLabels")
    /\ (IngestDone /\ non_empty_lines(file) = <<>>) =>
          (ipc = "raised" /\ ierr = "EmptyInput")

C5_Witness ==
    /\ OneColumnOfData /\ Len(labels) = 2 /\ ierr = "InsufficientColumns"
    /\ columns[1] # <<>>

\* the row the reader yields next
CurrentRow == ReaderRow(file[row_no + 1], delimiter)

\* a non-empty cell that float rejects, also with the comma made a point
BadCell(cell) ==
    LET c == Strip(cell)
    IN  c # <<>> /\ ~IsFloatText(c) /\ ~IsFloatText(ReplaceComma(c))

\* the loop is about to coerce a data row with a bad cell among its first two
AtBadDataRow ==
    /\ ipc = "scan" /\ row_no < Len(file)
    /\ skipped_label
    /\ ~IsEmptyRow(CurrentRow) /\ ~IsCommentRow(CurrentRow)
    /\ \E i \in 1..Len(CurrentRow) : i <= 2 /\ BadCell(CurrentRow[i])

\* C6: a data row with a cell among its first two that is non-empty and fails
\* both coercions appends nothing to any column, the scan goes on with the
\* next row without an error, and a call that got past the empty-file check
\* ends only after every row was consumed.
C6_BadRowDiscarded ==
    /\ [][AtBadDataRow =>
            /\ columns' = columns
            /\ ipc' = "scan" /\ ierr' = "none"
            /\ row_no' = row_no + 1]_vars
    /\ []((IngestDone /\ ierr # "EmptyInput") => row_no = Len(file))

C6_Witness ==
    /\ ipc = "returned"
    /\ file = << <<"x", ",", "y">>, <<"2", ",", "x">>, <<"1", ",", "2">> >>
    /\ columns = << <<<<"1">>>>, <<<<"2">>>> >>

\* C10: when the library sniff raised, the delimiter is the first of comma,
\* semicolon, tab, space that occurs in the sample, and comma when none
\* occurs; the delimiter is always one of the four.
C10_FallbackPriority ==
    ipc \in {"labels", "scan", "returned", "raised"} /\ delimiter # NoDelimiter =>
        /\ delimiter \in {",", ";", "\t", " "}
        /\ sniff_failed =>
              delimiter = (IF Occurs(",", Sample(file)) THEN ","
                           ELSE IF Occurs(";", Sample(file)) THEN ";"
                           ELSE IF Occurs("\t", Sample(file)) THEN "\t"
                           ELSE IF Occurs(" ", Sample(file)) THEN " "
                           ELSE ",")

C10_Witness ==
    /\ ipc = "labels" /\ sniff_failed
    /\ Occurs("\t", Sample(file)) /\ Occurs(" ", Sample(file))
    /\ delimiter = "\t"

(***************************************************************************)
(* Properties of plot_overlay and main (SpecOverlay)                       *)
(***************************************************************************)
\* the candidates consumed so far whose ingestion succeeded
Successes == {i \in 1..Len(ingested) : ingested[i].err = "none"}

IsSkipLine(ln) == ln[1] = "Skipping"

SkipLines == SelectSeq(printed, IsSkipLine)

\* plot_overlay has been called and has ended
OverlayEnded ==
    /\ opc \in {"exit", "raised"}
    /\ ~(via_main /\ csv_files = <<>>)

FirstSuccess == CHOOSE i \in Successes : \A j \in Successes : i <= j

\* C1: every candidate is attempted on its own: a failed one is reported as
\* skipped and the loop goes on, and the figure holds one series per
\* successfully ingested file, in input order.
C1_OneSeriesPerSuccess ==
    /\ Len(ingested) = fp
    /\ OverlayEnded => fp = Len(csv_files)
    /\ Len(traces) = Cardinality(Successes)
    /\ added = Len(traces)
    /\ \A k \in 1..Len(traces) :
          /\ traces[k].name \in Successes
          /\ traces[k].x = ingested[traces[k].name].columns[1]
          /\ traces[k].y = ingested[traces[k].name].columns[2]
    /\ \A k \in 1..Len(traces) : \A l \in 1..Len(traces) :
          k < l => traces[k].name < traces[l].name
    /\ Len(SkipLines) = fp - Cardinality(Successes)
    /\ \A k \in 1..Len(SkipLines) :
          /\ SkipLines[k][2] \in (1..fp) \ Successes
          /\ SkipLines[k][3] = ingested[SkipLines[k][2]].err
    /\ \A k \in 1..Len(SkipLines) : \A l \in 1..Len(SkipLines) :
          k < l => SkipLines[k][2] < SkipLines[l][2]

C1_Witness ==
    /\ OverlayEnded /\ Len(csv_files) = 3
    /\ Successes = {1, 3}
    /\ Len(traces) = 2 /\ traces[1].name = 1 /\ traces[2].name = 3
    /\ Len(SkipLines) = 1 /\ SkipLines[1][2] = 2

\* C2: plot_overlay raises the batch error exactly when no candidate was
\* ingested successfully, and then writes nothing; with at least one
\* success, also beside failures, it writes the output.
C2_FailOnlyWhenNoneSucceeds ==
    /\ oerr = "RuntimeError" =>
          OverlayEnded /\ Successes = {} /\ artifact = NoArtifact
    /\ artifact # NoArtifact => OverlayEnded /\ Successes # {}
    /\ OverlayEnded =>
          IF Successes = {}
          THEN oerr = "RuntimeError" /\ artifact = NoArtifact
          ELSE oerr = "none" /\ artifact # NoArtifact /\ artifact.traces = traces

C2_Witness ==
    /\ OverlayEnded /\ artifact # NoArtifact /\ oerr = "none"
    /\ Successes # {} /\ Cardinality(Successes) < Len(csv_files)

\* C3: the axis titles are the labels of the first candidate, in input
\* order, that was ingested successfully; failed candidates before it give
\* no labels, later successful ones leave the titles alone and still add
\* their series.
C3_TitlesFromFirstSuccess ==
    /\ Successes = {} => x_title = None /\ y_title = None
    /\ Successes # {} =>
          /\ x_title = ingested[FirstSuccess].labels[1]
          /\ y_title = ingested[FirstSuccess].labels[2]
    /\ artifact # NoArtifact =>
          /\ artifact.xaxis = ingested[FirstSuccess].labels[1]
          /\ artifact.yaxis = ingested[FirstSuccess].labels[2]
          /\ Len(artifact.traces) = Cardinality(Successes)

C3_Witness ==
    /\ OverlayEnded /\ artifact # NoArtifact
    /\ Successes = {2, 3}
    /\ ingested[3].labels # ingested[2].labels
    /\ artifact.xaxis = ingested[2].labels[1]
    /\ artifact.yaxis = ingested[2].labels[2]
    /\ Len(artifact.traces) = 2

(***************************************************************************)
(* Properties of the waveform synthesis (SpecSynth)                        *)
(***************************************************************************)
Scaled == wpc \in {"line_to_line", "done"}

\* the floats next above and next below a positive float
FSucc(a) ==
    IF a.m + 1 = Pow2(Precision) THEN [m |-> Pow2(Precision - 1), e |-> a.e + 1]
    ELSE [m |-> a.m + 1, e |-> a.e]

FPred(a) ==
    IF a.m = Pow2(Precision - 1) THEN [m |-> Pow2(Precision) - 1, e |-> a.e - 1]
    ELSE [m |-> a.m - 1, e |-> a.e]

SampleIds == {<<p, i>> : p \in 1..Len(Phases), i \in 1..N}

Magnitude(id) == FAbs(phase_waveforms[id[1]][id[2]])

\* C7 (as claimed): after normalization no sample of any scaled phase is
\* above target_peak in absolute value, and with a non-zero max_abs some
\* sample is exactly at target_peak.
C7_PeakExact ==
    Scaled =>
        /\ \A id \in SampleIds : FLeq(Magnitude(id), phase_leg_peak_v)
        /\ max_modulation.m # 0 =>
              \E id \in SampleIds : Magnitude(id) = phase_leg_peak_v

\* C7 (amended): after normalization no sample of any scaled phase is above
\* the float next above target_peak, and with a non-zero max_abs some sample
\* is at least the float next below target_peak: the peak is met within one
\* unit in the last place.
C7_PeakWithinOneUlp ==
    Scaled =>
        /\ scaling = Scaling(phase_leg_peak_v, max_modulation)
        /\ \A id \in SampleIds : FLeq(Magnitude(id), FSucc(phase_leg_peak_v))
        /\ max_modulation.m # 0 =>
              \E id \in SampleIds : FLeq(FPred(phase_leg_peak_v), Magnitude(id))

C7_Witness ==
    /\ wpc = "done" /\ N > 0
    /\ third_harmonic_ratio.m # 0
    /\ \E id \in SampleIds : Magnitude(id) = FSucc(phase_leg_peak_v)

\* C8: with a zero or negative frequency or cycle count the run does not
\* crash, and N is a non-negative integer.
C8_NoCrashOnDegenerate ==
    (freq_hz <= 0 \/ cycles <= 0) => (werr = "none" /\ N >= 0)

\* 2^(4 - Precision) * target_peak: sixteen rounding units of the peak
Tolerance == FMul(phase_leg_peak_v, [m |-> Pow2(Precision - 1), e |-> 5 - 2 * Precision])

Close(a, b) == FLeq(FAbs(FSub(a, b)), Tolerance)

\* the line-to-line voltages of a run of the same parameters without injection
NonInjectedLine ==
    LET plain == Combine(fundamental_waves, ThirdHarmonic(FZero, N, samples_per_cycle))
    IN  LineToLine(Scale(Scaling(phase_leg_peak_v, MaxModulation(plain)), plain))

\* the line-to-line voltages of the fundamental waves under this run's scaling
SameScalingLine == LineToLine(Scale(scaling, fundamental_waves))

LineIds == {<<k, i>> : k \in 1..Len(line_to_line_pairs), i \in 1..N}

\* C9 (as claimed): the line-to-line series of the injected, normalized
\* phases agree at every sample with the line-to-line series of the
\* non-injected phases.
C9_LineEqualsNonInjected ==
    wpc = "done" =>
        \A id \in LineIds :
            Close(line_to_line[id[1]][id[2]], NonInjectedLine[id[1]][id[2]])

\* C9 (amended): the line-to-line series of the injected, normalized phases
\* agree at every sample, within rounding, with the line-to-line series of
\* the non-injected fundamental waves scaled by the same scaling factor: the
\* third harmonic cancels in every pairwise difference.
C9_LineEqualsSameScaling ==
    wpc = "done" =>
        \A id \in LineIds :
            Close(line_to_line[id[1]][id[2]], SameScalingLine[id[1]][id[2]])

C9_Witness ==
    /\ wpc = "done" /\ N > 0
    /\ third_harmonic_ratio.m # 0
    /\ \E i \in 1..N : third_harmonic[i].m # 0
    /\ \E id \in LineIds : line_to_line[id[1]][id[2]].m # 0

====
